---------------------------- MODULE Spec2Model ----------------------------
(***************************************************************************)
(* Model of rust_bench_parser (src/src/lib.rs): the benchmark line regex,  *)
(* Benchmark::from_str, parse_commas / drop_commas, parse_lines, the       *)
(* name-only Eq / Ord of Benchmark and the lazily initialised regex.       *)
(*                                                                         *)
(* Text is a sequence of one-character strings.  A u64 is its canonical    *)
(* decimal numeral, a sequence of digits 0..9 without leading zero (<<0>>  *)
(* is zero): 2^64 does not fit TLC's integers, and the numeral keeps the   *)
(* true 64-bit limit U64_MAX.  Option<T> is <<>> (None) or <<v>> (Some).   *)
(***************************************************************************)
EXTENDS Integers, Sequences, FiniteSets, TLC

VARIABLES
    line,      \* from_str: the &str argument
    result,    \* from_str: the returned Result<Benchmark, ()> (or NotCalled)
    stream,    \* parse_lines: the items buffer.lines() will yield
    pos,       \* parse_lines: number of items the for loop has taken
    vec,       \* parse_lines: the local Vec<Benchmark>
    ret,       \* parse_lines: the returned io::Result<Vec<Benchmark>>
    lhs,       \* Eq/Ord: self
    rhs,       \* Eq/Ord: other
    eqOut,     \* Eq/Ord: result of eq
    cmpOut,    \* Eq/Ord: result of cmp
    cellState, \* OnceCell INSTANCE: "INCOMPLETE", "RUNNING" or "COMPLETE"
    cell,      \* OnceCell INSTANCE: the stored Regex (Option of an object id)
    built,     \* number of Regex objects Regex::new has built so far
    stores,    \* number of writes made to the cell's value
    pc,        \* per thread: position inside get_benchmark_regex
    mine,      \* per thread: the Regex its closure built (Option)
    got,       \* per thread: the &'static Regex its last call returned (Option)
    calls      \* per thread: completed calls of get_benchmark_regex

vars == <<line, result, stream, pos, vec, ret, lhs, rhs, eqOut, cmpOut,
          cellState, cell, built, stores, pc, mine, got, calls>>

(***************************************************************************)
(* Bounds of the model.                                                    *)
(***************************************************************************)
MaxWs == 2          \* longest generated whitespace run between tokens
MaxNameLen == 3     \* longest generated benchmark name
MaxNumLen == 2      \* longest generated short numeric capture
MaxLines == 3       \* longest generated input stream of parse_lines
MaxOrdNameLen == 2  \* longest name of the Benchmarks that are compared
MaxThreads == 3     \* threads calling get_benchmark_regex
MaxCalls == 2       \* calls of get_benchmark_regex per thread

(***************************************************************************)
(* Option and Result values.                                               *)
(***************************************************************************)
None == <<>>
Some(v) == <<v>>
IsSome(o) == o # <<>>
Unwrap(o) == o[1]

Ok(v) == [tag |-> "Ok", val |-> <<v>>]
Err(e) == [tag |-> "Err", val |-> <<e>>]
Unit == "()"
Panic == [tag |-> "Panic", val |-> <<>>]

(***************************************************************************)
(* Text helpers.                                                           *)
(***************************************************************************)
RECURSIVE Cat(_)
Cat(ss) == IF ss = <<>> THEN <<>> ELSE Head(ss) \o Cat(Tail(ss))

Rep(c, n) == [i \in 1..n |-> c]

StringsOver(S, n) == UNION {[1..k -> S] : k \in 1..n}

IsWhitespace(c) == c \in {" ", "\t"}

DigitChars == {"0", "1", "2", "3", "4", "5", "6", "7", "8", "9"}

DigitVal(c) ==
    CASE c = "0" -> 0 [] c = "1" -> 1 [] c = "2" -> 2 [] c = "3" -> 3
      [] c = "4" -> 4 [] c = "5" -> 5 [] c = "6" -> 6 [] c = "7" -> 7
      [] c = "8" -> 8 [] c = "9" -> 9

(***************************************************************************)
(* The regex of get_benchmark_regex.  In (?x) mode the pattern's own white *)
(* space and # comments are ignored.  An item is a literal text ("lit"),   *)
(* or one character class taken once or (plus) one or more times,          *)
(* greedily, which may be a named capture group.  Classes: "ws" \s,        *)
(* "nonws" \S, "any" the dot, "num" [0-9,].                                *)
(***************************************************************************)
Item(kind, ch, plus, cap) == [kind |-> kind, ch |-> ch, plus |-> plus, cap |-> cap]

Lit(s) == <<Item("lit", s, FALSE, "")>>
WsPlus == <<Item("ws", "", TRUE, "")>>
WsOne == <<Item("ws", "", FALSE, "")>>
Dot == <<Item("any", "", FALSE, "")>>
Group(name, kind) == <<Item(kind, "", TRUE, name)>>

InClass(c, it) ==
    CASE it.kind = "ws" -> IsWhitespace(c)
      [] it.kind = "nonws" -> ~IsWhitespace(c)
      [] it.kind = "any" -> c # "\n"
      [] it.kind = "num" -> c \in DigitChars \cup {","}

\* test\s+(?P<name>\S+)
RegexLine1 ==
    Cat(<<Lit(<<"t", "e", "s", "t">>), WsPlus, Group("name", "nonws")>>)

\* \s+...\sbench:\s+(?P<ns>[0-9,]+)\s+ns/iter
RegexLine2 ==
    Cat(<<WsPlus, Dot, Dot, Dot, WsOne, Lit(<<"b", "e", "n", "c", "h", ":">>),
          WsPlus, Group("ns", "num"), WsPlus,
          Lit(<<"n", "s", "/", "i", "t", "e", "r">>)>>)

\* \s+\(\+/-\s+(?P<variance>[0-9,]+)\)
RegexLine3 ==
    Cat(<<WsPlus, Lit(<<"(", "+", "/", "-">>), WsPlus,
          Group("variance", "num"), Lit(<<")">>)>>)

\* (?:\s+=\s+(?P<throughput>[0-9,]+)\sMB/s)?
RegexLine4 ==
    Cat(<<WsPlus, Lit(<<"=">>), WsPlus, Group("throughput", "num"), WsOne,
          Lit(<<"M", "B", "/", "s">>)>>)

\* The compiled pattern: the mandatory part and the trailing optional group.
BenchmarkRegex ==
    [main |-> Cat(<<RegexLine1, RegexLine2, RegexLine3>>), opt |-> RegexLine4]

(***************************************************************************)
(* Regex::captures: leftmost match, greedy repetition with backtracking.   *)
(* A match is [ok, end, caps]: end is the first position after the match,  *)
(* caps maps each group name to Some(text) or None (did not participate).  *)
(***************************************************************************)
GroupNames == {"name", "ns", "variance", "throughput"}
NoCaps == [g \in GroupNames |-> None]
NoMatch == [ok |-> FALSE, end |-> 0, caps |-> NoCaps]

RECURSIVE RunLen(_, _, _)
RunLen(s, p, it) ==
    IF p <= Len(s) /\ InClass(s[p], it) THEN 1 + RunLen(s, p + 1, it) ELSE 0

\* The literal text stands in s at position p.
LitAt(s, p, text) ==
    p + Len(text) - 1 <= Len(s) /\ SubSeq(s, p, p + Len(text) - 1) = text

SetCap(m, it, text) ==
    IF m.ok /\ it.cap # "" THEN [m EXCEPT !.caps[it.cap] = Some(text)] ELSE m

RECURSIVE MatchFrom(_, _, _, _)
RECURSIVE TryLens(_, _, _, _, _)
MatchFrom(pat, k, s, p) ==
    IF k > Len(pat) THEN [ok |-> TRUE, end |-> p, caps |-> NoCaps]
    ELSE IF pat[k].plus THEN TryLens(pat, k, s, p, RunLen(s, p, pat[k]))
    ELSE IF pat[k].kind = "lit"
         THEN IF LitAt(s, p, pat[k].ch)
              THEN MatchFrom(pat, k + 1, s, p + Len(pat[k].ch))
              ELSE NoMatch
    ELSE IF p <= Len(s) /\ InClass(s[p], pat[k])
         THEN SetCap(MatchFrom(pat, k + 1, s, p + 1), pat[k], <<s[p]>>)
         ELSE NoMatch

\* The greedy item pat[k] takes n characters, then n-1, ... down to 1.
TryLens(pat, k, s, p, n) ==
    IF n < 1 THEN NoMatch
    ELSE LET m == MatchFrom(pat, k + 1, s, p + n)
         IN IF m.ok THEN SetCap(m, pat[k], SubSeq(s, p, p + n - 1))
            ELSE TryLens(pat, k, s, p, n - 1)

RECURSIVE SearchFrom(_, _, _)
SearchFrom(pat, s, p) ==
    IF p > Len(s) + 1 THEN NoMatch
    ELSE LET m == MatchFrom(pat, 1, s, p)
         IN IF m.ok THEN m ELSE SearchFrom(pat, s, p + 1)

Captures(re, s) ==
    LET m == SearchFrom(re.main, s, 1)
        t == MatchFrom(re.opt, 1, s, m.end)
    IN IF ~m.ok THEN NoMatch
       ELSE IF t.ok
            THEN [ok |-> TRUE, end |-> t.end,
                  caps |-> [m.caps EXCEPT !["throughput"] = t.caps["throughput"]]]
            ELSE m

(***************************************************************************)
(* u64 and str::parse::<u64>.                                              *)
(***************************************************************************)
U64_MAX == <<1, 8, 4, 4, 6, 7, 4, 4, 0, 7, 3, 7, 0, 9, 5, 5, 1, 6, 1, 5>>
Zero == <<0>>

RECURSIVE NumLess(_, _)
NumLess(a, b) ==
    IF Len(a) # Len(b) THEN Len(a) < Len(b)
    ELSE IF a = <<>> THEN FALSE
    ELSE IF Head(a) # Head(b) THEN Head(a) < Head(b)
    ELSE NumLess(Tail(a), Tail(b))

\* u64::checked_mul(acc, 10)
CheckedMul10(acc) ==
    LET r == IF acc = Zero THEN Zero ELSE Append(acc, 0)
    IN IF NumLess(U64_MAX, r) THEN None ELSE Some(r)

\* u64::checked_add(acc, d) for a digit d and acc a multiple of ten, which
\* is what the parse loop adds to: no carry leaves the last place.
CheckedAddDigit(acc, d) ==
    LET r == [acc EXCEPT ![Len(acc)] = d]
    IN IF NumLess(U64_MAX, r) THEN None ELSE Some(r)

\* The digit loop of u64::from_str: result = result * 10 + digit, checked.
RECURSIVE ParseDigits(_, _)
ParseDigits(acc, s) ==
    IF s = <<>> THEN Some(acc)
    ELSE IF Head(s) \notin DigitChars THEN None
    ELSE LET m == CheckedMul10(acc)
         IN IF m = None THEN None
            ELSE LET a == CheckedAddDigit(Unwrap(m), DigitVal(Head(s)))
                 IN IF a = None THEN None ELSE ParseDigits(Unwrap(a), Tail(s))

\* s.parse::<u64>().ok(): the empty string is an error; a leading plus sign
\* is skipped when digits follow it.
ParseU64(s) ==
    IF s = <<>> THEN None
    ELSE IF s = <<"+">> THEN None
    ELSE IF Head(s) = "+" THEN ParseDigits(Zero, Tail(s))
    ELSE ParseDigits(Zero, s)

drop_commas_firstOnly(s) ==
    LET at == {i \in 1..Len(s) : s[i] = ","}
    IN IF at = {} THEN s
       ELSE LET i == CHOOSE k \in at : \A j \in at : k <= j
            IN SubSeq(s, 1, i - 1) \o SubSeq(s, i + 1, Len(s))

drop_commas(s) == SelectSeq(s, LAMBDA b : b # ",")

parse_commas(s) == ParseU64(drop_commas(s))

(***************************************************************************)
(* Benchmark::from_str.                                                    *)
(***************************************************************************)
RECURSIVE LastIndexOf(_, _, _)
LastIndexOf(s, c, i) ==
    IF i = 0 THEN 0 ELSE IF s[i] = c THEN i ELSE LastIndexOf(s, c, i - 1)

\* str::rsplit_once with a char pattern: Some(<<before, after>>) around the
\* last occurrence of c, None when c does not occur.
rsplit_once_swapped(s, c) ==
    LET i == LastIndexOf(s, c, Len(s))
    IN IF i = 0 THEN None
       ELSE Some(<<SubSeq(s, i + 1, Len(s)), SubSeq(s, 1, i - 1)>>)

rsplit_once(s, c) ==
    LET i == LastIndexOf(s, c, Len(s))
    IN IF i = 0 THEN None
       ELSE Some(<<SubSeq(s, 1, i - 1), SubSeq(s, i + 1, Len(s))>>)

\* caps["group"]: indexing a group that did not participate panics.
HasGroup(caps, g) == IsSome(caps[g])

\* caps.name("throughput").and_then(|m| parse_commas(m.as_str()))
throughput_of_unwrapOrZero(caps) ==
    IF caps["throughput"] = None THEN None
    ELSE LET t == parse_commas(Unwrap(caps["throughput"]))
         IN IF t = None THEN Some(Zero) ELSE t

throughput_of(caps) ==
    IF caps["throughput"] = None THEN None
    ELSE parse_commas(Unwrap(caps["throughput"]))

from_str(s) ==
    LET m == Captures(BenchmarkRegex, s)
        caps == m.caps
    IN IF ~m.ok THEN Err(Unit)
       ELSE IF ~HasGroup(caps, "ns") THEN Panic
       ELSE LET ns == parse_commas(Unwrap(caps["ns"]))
       IN IF ns = None THEN Err(Unit)
       ELSE IF ~HasGroup(caps, "variance") THEN Panic
       ELSE LET variance == parse_commas(Unwrap(caps["variance"]))
       IN IF variance = None THEN Err(Unit)
       ELSE LET throughput == throughput_of(caps)
            IN IF ~HasGroup(caps, "name") THEN Panic
               ELSE LET name == Unwrap(caps["name"])
                        sp == rsplit_once(name, ":")
                        shortname == IF sp = None THEN name ELSE Unwrap(sp)[2]
                    IN Ok([name |-> name, shortname |-> shortname,
                           ns |-> Unwrap(ns), variance |-> Unwrap(variance),
                           throughput |-> throughput])


(***************************************************************************)
(* Input lines.  A line is put together from the pieces of the line        *)
(* format; every piece is varied against an otherwise well-formed line.    *)
(***************************************************************************)
DigitChar(d) ==
    CASE d = 0 -> "0" [] d = 1 -> "1" [] d = 2 -> "2" [] d = 3 -> "3"
      [] d = 4 -> "4" [] d = 5 -> "5" [] d = 6 -> "6" [] d = 7 -> "7"
      [] d = 8 -> "8" [] d = 9 -> "9"

Text(num) == [i \in 1..Len(num) |-> DigitChar(num[i])]

U64MaxText == Text(U64_MAX)
U64MaxPlus1Text == [U64MaxText EXCEPT ![Len(U64MaxText)] = "6"]

BigNums ==
    { U64MaxText,
      U64MaxPlus1Text,
      <<"0", ",">> \o U64MaxText,
      <<"1">> \o Rep("0", Len(U64MaxText)),
      <<"9", "5", ",", "6", "5", "3", ",", "5", "4", "1">>,
      <<"2", ",", "3", "1", "4">> }

ShortNums == StringsOver({"0", "7", ","}, MaxNumLen)
Nums == ShortNums \cup BigNums

Names == StringsOver({"a", ":"}, MaxNameLen)

TestWord == <<"t", "e", "s", "t">>
BenchWord == <<"b", "e", "n", "c", "h", ":">>
NsIter == <<"n", "s", "/", "i", "t", "e", "r">>
PlusMinus == <<"(", "+", "/", "-">>
MBs == <<"M", "B", "/", "s">>
Running3Tests ==
    <<"r", "u", "n", "n", "i", "n", "g", " ", "3", " ", "t", "e", "s", "t", "s">>

WsRuns == {Rep(" ", n) : n \in 0..MaxWs} \cup {<<"\t">>}

\* = <throughput> MB/s with the given whitespace around its parts
Clause(w1, w2, num, w3) == Cat(<<w1, <<"=">>, w2, num, w3, MBs>>)

Clauses ==
    {<<>>}
    \cup {Clause(w1, w2, <<"2", ",", "3", "1", "4">>, w3) :
             w1 \in WsRuns, w2 \in WsRuns, w3 \in WsRuns}
    \cup {Clause(<<" ">>, <<" ">>, n, <<" ">>) : n \in Nums}

BuildLine(p) ==
    Cat(<<p.pre, p.kw, p.ws[1], p.name, p.ws[2], p.marker, p.ws[3], p.bench,
          p.ws[4], p.ns, p.ws[5], NsIter, p.ws[6], PlusMinus, p.ws[7],
          p.variance, p.close, p.clause, p.post>>)

BaseShape ==
    [pre |-> <<>>, kw |-> TestWord, ws |-> [i \in 1..7 |-> <<" ">>],
     name |-> <<"m", ":", ":", "f">>, marker |-> <<".", ".", ".">>,
     bench |-> BenchWord, ns |-> <<"1">>, variance |-> <<"1">>,
     close |-> <<")">>, clause |-> <<>>, post |-> <<>>]

Markers == {<<".", ".", ".">>, <<"x", "y", "z">>, <<".", ".">>, <<".", " ", ".">>}

Shapes ==
    {[BaseShape EXCEPT !.name = n, !.ns = v] : n \in Names, v \in Nums}
    \cup {[BaseShape EXCEPT !.variance = v, !.clause = c] :
             v \in Nums, c \in {<<>>, Clause(<<" ">>, <<" ">>, <<"7">>, <<" ">>)}}
    \cup {[BaseShape EXCEPT !.clause = c, !.post = t] :
             c \in Clauses, t \in {<<>>, <<" ", "x">>}}
    \cup {[BaseShape EXCEPT !.marker = m, !.ws[k] = w, !.pre = a] :
             m \in Markers, k \in 1..7, w \in WsRuns,
             a \in {<<>>, <<"#", " ">>, <<"x">>}}
    \cup {[BaseShape EXCEPT !.kw = a, !.bench = b, !.close = c] :
             a \in {TestWord, <<"t", "e", "s">>},
             b \in {BenchWord, <<"b", "e", "n", "c", "h">>, <<>>},
             c \in {<<")">>, <<" ", ")">>, <<>>}}

Lines == {BuildLine(p) : p \in Shapes} \cup {<<>>, Running3Tests}

(***************************************************************************)
(* Values the variables of the other operations keep while one operation  *)
(* is explored.                                                            *)
(***************************************************************************)
NotCalled == [tag |-> "NotCalled", val |-> <<>>]
NoBench ==
    [name |-> <<>>, shortname |-> <<>>, ns |-> Zero, variance |-> Zero,
     throughput |-> None]
Threads == 1..MaxThreads

IdleFromStr == line = <<>> /\ result = NotCalled
IdleLines == stream = <<>> /\ pos = 0 /\ vec = <<>> /\ ret = NotCalled
IdleOrd == lhs = NoBench /\ rhs = NoBench /\ eqOut = None /\ cmpOut = None
IdleOnce ==
    /\ cellState = "INCOMPLETE" /\ cell = None /\ built = 0 /\ stores = 0
    /\ pc = [t \in Threads |-> "idle"]
    /\ mine = [t \in Threads |-> None]
    /\ got = [t \in Threads |-> None]
    /\ calls = [t \in Threads |-> 0]

varsFromStr == <<line, result>>
varsLines == <<stream, pos, vec, ret>>
varsOrd == <<lhs, rhs, eqOut, cmpOut>>
varsOnce == <<cellState, cell, built, stores, pc, mine, got, calls>>

(***************************************************************************)
(* One call of Benchmark::from_str.                                        *)
(***************************************************************************)
InitFromStr ==
    /\ line \in Lines
    /\ result = NotCalled
    /\ IdleLines /\ IdleOrd /\ IdleOnce

CallFromStr ==
    /\ result = NotCalled
    /\ result' = from_str(line)
    /\ UNCHANGED <<line, varsLines, varsOrd, varsOnce>>

NextFromStr == CallFromStr

SpecFromStr == InitFromStr /\ [][NextFromStr]_vars


(***************************************************************************)
(* parse_lines.  The reader's lines() yields the items of stream in order: *)
(* a line of text, or a read error.                                        *)
(***************************************************************************)
TextItem(t) == [kind |-> "line", text |-> t]
ReadError == [kind |-> "err", text |-> <<>>]
Running == [tag |-> "Running", val |-> <<>>]

BatchLines ==
    { Running3Tests,
      <<>>,
      BuildLine(BaseShape),
      BuildLine([BaseShape EXCEPT !.ns = <<"7">>]),
      BuildLine([BaseShape EXCEPT !.name = <<"a">>]),
      BuildLine([BaseShape EXCEPT !.ns = U64MaxPlus1Text]) }

Items == {TextItem(t) : t \in BatchLines} \cup {ReadError}

Streams == UNION {[1..k -> Items] : k \in 0..MaxLines}

SameName(v, b) == \E i \in 1..Len(v) : v[i].name = b.name

LoopBody_dedup(item, v) ==
    IF item.kind = "err" THEN [ret |-> Err("io"), vec |-> <<>>]
    ELSE LET r == from_str(item.text)
         IN IF r.tag = "Panic" THEN [ret |-> Panic, vec |-> <<>>]
            ELSE IF r.tag = "Ok" /\ ~SameName(v, Unwrap(r.val))
                 THEN [ret |-> Running, vec |-> Append(v, Unwrap(r.val))]
                 ELSE [ret |-> Running, vec |-> v]

LoopBody_abortOnParseFailure(item, v) ==
    IF item.kind = "err" THEN [ret |-> Err("io"), vec |-> <<>>]
    ELSE LET r == from_str(item.text)
         IN IF r.tag = "Panic" THEN [ret |-> Panic, vec |-> <<>>]
            ELSE IF r.tag = "Ok"
                 THEN [ret |-> Running, vec |-> Append(v, Unwrap(r.val))]
                 ELSE [ret |-> Err("io"), vec |-> <<>>]

\* One iteration of the for loop: result? returns the read error (dropping
\* vec); a line that parses is pushed, one that does not is passed over.
LoopBody(item, v) ==
    IF item.kind = "err" THEN [ret |-> Err("io"), vec |-> <<>>]
    ELSE LET r == from_str(item.text)
         IN IF r.tag = "Panic" THEN [ret |-> Panic, vec |-> <<>>]
            ELSE IF r.tag = "Ok"
                 THEN [ret |-> Running, vec |-> Append(v, Unwrap(r.val))]
                 ELSE [ret |-> Running, vec |-> v]

InitLines ==
    /\ stream \in Streams
    /\ pos = 0
    /\ vec = <<>>
    /\ ret = Running
    /\ IdleFromStr /\ IdleOrd /\ IdleOnce

ForStep ==
    /\ ret = Running
    /\ pos < Len(stream)
    /\ LET out == LoopBody(stream[pos + 1], vec)
       IN /\ ret' = out.ret
          /\ vec' = out.vec
    /\ pos' = pos + 1
    /\ UNCHANGED <<stream, varsFromStr, varsOrd, varsOnce>>

ReturnOk ==
    /\ ret = Running
    /\ pos = Len(stream)
    /\ ret' = Ok(vec)
    /\ vec' = <<>>
    /\ UNCHANGED <<stream, pos, varsFromStr, varsOrd, varsOnce>>

NextLines == ForStep \/ ReturnOk

Spec == InitLines /\ [][NextLines]_vars

(***************************************************************************)
(* Eq, PartialEq, Ord and PartialOrd of Benchmark.                         *)
(***************************************************************************)
Byte(c) ==
    CASE c = "a" -> 97 [] c = "b" -> 98 [] c = "B" -> 66 [] c = ":" -> 58
      [] c = "f" -> 102 [] c = "m" -> 109

RECURSIVE FirstDiff(_, _, _)
FirstDiff(s, t, i) ==
    IF i > Len(s) \/ i > Len(t) THEN 0
    ELSE IF s[i] # t[i] THEN i ELSE FirstDiff(s, t, i + 1)

IntCmp(x, y) == IF x < y THEN "Less" ELSE IF x = y THEN "Equal" ELSE "Greater"

\* str::cmp: the bytes of the common prefix length are compared first, the
\* lengths when they agree.
StrCmp(s, t) ==
    LET i == FirstDiff(s, t, 1)
    IN IF i # 0 THEN IntCmp(Byte(s[i]), Byte(t[i])) ELSE IntCmp(Len(s), Len(t))

eq_allFields(a, b) == a = b

eq(a, b) == a.name = b.name

partial_cmp(a, b) == Some(StrCmp(a.name, b.name))

\* self.partial_cmp(other).unwrap()
cmp(a, b) ==
    LET o == partial_cmp(a, b) IN IF o = None THEN "Panic" ELSE Unwrap(o)

OrdNames == {<<>>} \cup StringsOver({"a", "B"}, MaxOrdNameLen)

OrdBenchmarks ==
    {[name |-> n, shortname |-> n, ns |-> v, variance |-> Zero, throughput |-> t] :
        n \in OrdNames, v \in {Zero, <<7>>}, t \in {None, Some(<<7>>)}}

InitOrd ==
    /\ lhs \in OrdBenchmarks
    /\ rhs \in OrdBenchmarks
    /\ eqOut = None
    /\ cmpOut = None
    /\ IdleFromStr /\ IdleLines /\ IdleOnce

CallEq ==
    /\ eqOut = None
    /\ eqOut' = Some(eq(lhs, rhs))
    /\ UNCHANGED <<lhs, rhs, cmpOut, varsFromStr, varsLines, varsOnce>>

CallCmp ==
    /\ cmpOut = None
    /\ cmpOut' = Some(cmp(lhs, rhs))
    /\ UNCHANGED <<lhs, rhs, eqOut, varsFromStr, varsLines, varsOnce>>

NextOrd == CallEq \/ CallCmp

SpecOrd == InitOrd /\ [][NextOrd]_vars

(***************************************************************************)
(* get_benchmark_regex called from several threads.  INSTANCE is a         *)
(* once_cell::sync::OnceCell; get_or_init first reads the cell (fast       *)
(* path), and otherwise enters its initialisation: the thread that moves   *)
(* the state from INCOMPLETE to RUNNING runs the closure and stores its    *)
(* value, every other thread waits for COMPLETE.                           *)
(***************************************************************************)
CanBeginInit_unguarded(state) == state # "COMPLETE"

CanBeginInit(state) == state = "INCOMPLETE"

InitOnce ==
    /\ cellState = "INCOMPLETE"
    /\ cell = None
    /\ built = 0
    /\ stores = 0
    /\ pc = [t \in Threads |-> "idle"]
    /\ mine = [t \in Threads |-> None]
    /\ got = [t \in Threads |-> None]
    /\ calls = [t \in Threads |-> 0]
    /\ IdleFromStr /\ IdleLines /\ IdleOrd

Call(t) ==
    /\ pc[t] = "idle"
    /\ calls[t] < MaxCalls
    /\ pc' = [pc EXCEPT ![t] = "fast"]
    /\ UNCHANGED <<cellState, cell, built, stores, mine, got, calls,
                   varsFromStr, varsLines, varsOrd>>

FastHit(t) ==
    /\ pc[t] = "fast"
    /\ cellState = "COMPLETE"
    /\ pc' = [pc EXCEPT ![t] = "ret"]
    /\ UNCHANGED <<cellState, cell, built, stores, mine, got, calls,
                   varsFromStr, varsLines, varsOrd>>

FastMiss(t) ==
    /\ pc[t] = "fast"
    /\ cellState # "COMPLETE"
    /\ pc' = [pc EXCEPT ![t] = "slow"]
    /\ UNCHANGED <<cellState, cell, built, stores, mine, got, calls,
                   varsFromStr, varsLines, varsOrd>>

BeginInit(t) ==
    /\ pc[t] = "slow"
    /\ CanBeginInit(cellState)
    /\ cellState' = "RUNNING"
    /\ pc' = [pc EXCEPT ![t] = "closure"]
    /\ UNCHANGED <<cell, built, stores, mine, got, calls,
                   varsFromStr, varsLines, varsOrd>>

\* The closure: Regex::new(..).unwrap() builds a new Regex object.
BuildRegex(t) ==
    /\ pc[t] = "closure"
    /\ built' = built + 1
    /\ mine' = [mine EXCEPT ![t] = Some(built + 1)]
    /\ pc' = [pc EXCEPT ![t] = "store"]
    /\ UNCHANGED <<cellState, cell, stores, got, calls,
                   varsFromStr, varsLines, varsOrd>>

StoreValue(t) ==
    /\ pc[t] = "store"
    /\ cell' = mine[t]
    /\ stores' = stores + 1
    /\ cellState' = "COMPLETE"
    /\ pc' = [pc EXCEPT ![t] = "ret"]
    /\ UNCHANGED <<built, mine, got, calls, varsFromStr, varsLines, varsOrd>>

AwaitComplete(t) ==
    /\ pc[t] = "slow"
    /\ cellState = "COMPLETE"
    /\ pc' = [pc EXCEPT ![t] = "ret"]
    /\ UNCHANGED <<cellState, cell, built, stores, mine, got, calls,
                   varsFromStr, varsLines, varsOrd>>

Return(t) ==
    /\ pc[t] = "ret"
    /\ got' = [got EXCEPT ![t] = cell]
    /\ calls' = [calls EXCEPT ![t] = @ + 1]
    /\ pc' = [pc EXCEPT ![t] = "idle"]
    /\ UNCHANGED <<cellState, cell, built, stores, mine,
                   varsFromStr, varsLines, varsOrd>>

NextOnce ==
    \E t \in Threads :
        \/ Call(t)
        \/ FastHit(t)
        \/ FastMiss(t)
        \/ BeginInit(t)
        \/ BuildRegex(t)
        \/ StoreValue(t)
        \/ AwaitComplete(t)
        \/ Return(t)

SpecOnce == InitOnce /\ [][NextOnce]_vars

(***************************************************************************)
(* What the properties below are stated with.                              *)
(***************************************************************************)
\* The line grammar as documented: the marker is three literal dots and
\* every separation is one or more whitespace characters.
GrammarMain ==
    Cat(<<Lit(TestWord), WsPlus, Group("name", "nonws"), WsPlus,
          Lit(<<".", ".", ".">>), WsPlus, Lit(BenchWord), WsPlus,
          Group("ns", "num"), WsPlus, Lit(NsIter), WsPlus, Lit(PlusMinus),
          WsPlus, Group("variance", "num"), Lit(<<")">>)>>)

GrammarClause ==
    Cat(<<WsPlus, Lit(<<"=">>), WsPlus, Group("throughput", "num"), WsPlus,
          Lit(MBs)>>)

Grammar == [main |-> GrammarMain, opt |-> GrammarClause]

\* The digits of a capture, commas left out.
DigitsOf(cap) ==
    LET d == SelectSeq(cap, LAMBDA c : c \in DigitChars)
    IN [i \in 1..Len(d) |-> DigitVal(d[i])]

RECURSIVE StripZeros(_)
StripZeros(d) ==
    IF Len(d) > 1 /\ Head(d) = 0 THEN StripZeros(Tail(d)) ELSE d

\* The unsigned integer a capture denotes once its commas are removed.
ValueOf(cap) == StripZeros(DigitsOf(cap))

\* The capture has a digit and its value is at most 2^64 - 1.
FitsU64(cap) ==
    /\ DigitsOf(cap) # <<>>
    /\ Len(ValueOf(cap)) <= Len(U64_MAX)
    /\ (Len(ValueOf(cap)) = Len(U64_MAX) =>
           \A i \in 1..Len(U64_MAX) :
               (\A j \in 1..(i - 1) : ValueOf(cap)[j] = U64_MAX[j])
                   => ValueOf(cap)[i] <= U64_MAX[i])

IsSuffix(t, s) ==
    Len(t) <= Len(s) /\ SubSeq(s, Len(s) - Len(t) + 1, Len(s)) = t

\* The part of name after the last "::", the whole name when it has none.
AfterLastSeparator(name) ==
    LET at == {i \in 1..(Len(name) - 1) : name[i] = ":" /\ name[i + 1] = ":"}
    IN IF at = {} THEN name
       ELSE LET i == CHOOSE k \in at : \A j \in at : j <= k
            IN SubSeq(name, i + 2, Len(name))

Called == result # NotCalled
Accepted == result.tag = "Ok"
Parsed == Unwrap(result.val)
Found == Captures(BenchmarkRegex, line)
CapOf(g) == Unwrap(Found.caps[g])

\* The line up to the end of the mandatory part of the match.
WithoutClause == SubSeq(line, 1, SearchFrom(BenchmarkRegex.main, line, 1).end - 1)

(***************************************************************************)
(* C1: for every accepted line, shortname is the part of name after the    *)
(* last "::", and is name itself when name has no "::".                    *)
(* Violated: the code splits at the last single ':'.                       *)
(***************************************************************************)
C1_ShortnameAfterLastDoubleColon ==
    Accepted => Parsed.shortname = AfterLastSeparator(Parsed.name)

(***************************************************************************)
(* C2 as stated: every line the regex matches yields a Benchmark whose ns  *)
(* and variance are the values of the captures without their commas.       *)
(***************************************************************************)
C2_EveryMatchYieldsValues ==
    (Called /\ Found.ok) =>
        /\ Accepted
        /\ Parsed.ns = ValueOf(CapOf("ns"))
        /\ Parsed.variance = ValueOf(CapOf("variance"))

(***************************************************************************)
(* C2 amended: every line the regex matches whose ns and variance captures *)
(* each have a digit and a value of at most 2^64 - 1 yields a Benchmark    *)
(* whose ns and variance are exactly those values.                         *)
(***************************************************************************)
C2_FittingMatchYieldsValues ==
    (Called /\ Found.ok /\ FitsU64(CapOf("ns")) /\ FitsU64(CapOf("variance"))) =>
        /\ Accepted
        /\ Parsed.ns = ValueOf(CapOf("ns"))
        /\ Parsed.variance = ValueOf(CapOf("variance"))

C2_Witness ==
    /\ Accepted
    /\ "," \in {CapOf("ns")[i] : i \in 1..Len(CapOf("ns"))}
    /\ Head(CapOf("ns")) = "0"
    /\ Parsed.ns = U64_MAX

(***************************************************************************)
(* C3 as stated: in every Benchmark from_str produces, shortname is a      *)
(* non-empty suffix of name, also for names that end with a colon.         *)
(***************************************************************************)
C3_ShortnameNonEmptySuffix ==
    Accepted => Parsed.shortname # <<>> /\ IsSuffix(Parsed.shortname, Parsed.name)

(***************************************************************************)
(* C3 amended: in every Benchmark from_str produces, shortname is a suffix *)
(* of name, and it is non-empty whenever name does not end with a colon.   *)
(***************************************************************************)
C3_ShortnameSuffix ==
    Accepted =>
        /\ IsSuffix(Parsed.shortname, Parsed.name)
        /\ Parsed.name[Len(Parsed.name)] # ":" => Parsed.shortname # <<>>

C3_Witness ==
    /\ Accepted
    /\ Parsed.name = <<"a", ":", ":">>
    /\ Parsed.shortname = <<>>

(***************************************************************************)
(* C4: the recognizer accepts a line exactly when the line contains the    *)
(* documented grammar (three literal dots, one or more whitespace between  *)
(* the tokens), and a line without it yields absence.                      *)
(* Violated: the code's marker is three arbitrary characters and exactly   *)
(* one whitespace character may stand between the marker and bench:.       *)
(***************************************************************************)
C4_AcceptsExactlyTheGrammar ==
    Called =>
        /\ Found.ok <=> Captures(Grammar, line).ok
        /\ ~Captures(Grammar, line).ok => result = Err(Unit)

(***************************************************************************)
(* C5: for every accepted line, throughput is None when the line has no    *)
(* throughput clause and Some(value) when it has one whose number parses,  *)
(* for any amount of whitespace between the parts of the clause.           *)
(* Violated: the code wants exactly one whitespace character before MB/s.  *)
(***************************************************************************)
C5_ThroughputFollowsClause ==
    (Accepted /\ Captures(Grammar, line).ok) =>
        LET clause == Captures(Grammar, line).caps["throughput"]
        IN IF clause = None THEN Parsed.throughput = None
           ELSE FitsU64(Unwrap(clause))
                    => Parsed.throughput = Some(ValueOf(Unwrap(clause)))

(***************************************************************************)
(* C6: a capture that does not parse as a u64 once its commas are removed  *)
(* (no digit left, or a value above 2^64 - 1) never panics: in ns or       *)
(* variance the line yields Err; in throughput the record is returned with *)
(* throughput None and the name, shortname, ns and variance the line gives *)
(* without its throughput clause.                                          *)
(***************************************************************************)
C6_UnparsableCaptures ==
    Called =>
        /\ result.tag # "Panic"
        /\ (Found.ok /\ (~FitsU64(CapOf("ns")) \/ ~FitsU64(CapOf("variance"))))
               => result = Err(Unit)
        /\ (/\ Found.ok
            /\ FitsU64(CapOf("ns"))
            /\ FitsU64(CapOf("variance"))
            /\ Found.caps["throughput"] # None
            /\ ~FitsU64(CapOf("throughput")))
               => /\ Accepted
                  /\ Parsed.throughput = None
                  /\ result = from_str(WithoutClause)

C6_Witness ==
    /\ Accepted
    /\ Found.caps["throughput"] = Some(U64MaxPlus1Text)
    /\ Parsed.throughput = None

(***************************************************************************)
(* C7: parse_lines returns the Benchmarks from_str gives for the lines, in *)
(* input order: lines that do not parse add nothing, and lines with the    *)
(* same name are all kept.                                                 *)
(***************************************************************************)
RECURSIVE Successes(_)
Successes(items) ==
    IF items = <<>> THEN <<>>
    ELSE LET r == from_str(Head(items).text)
         IN (IF r.tag = "Ok" THEN r.val ELSE <<>>) \o Successes(Tail(items))

C7_ReturnsSuccessesInOrder ==
    /\ ret.tag = "Ok" => Unwrap(ret.val) = Successes(stream)
    /\ ret = Running => vec = Successes(SubSeq(stream, 1, pos))

C7_Witness ==
    /\ ret.tag = "Ok"
    /\ Len(stream) = 3
    /\ stream[1] = TextItem(Running3Tests)
    /\ Len(Unwrap(ret.val)) = 2
    /\ Unwrap(ret.val)[1].name = Unwrap(ret.val)[2].name
    /\ Unwrap(ret.val)[1].ns = <<7>>
    /\ Unwrap(ret.val)[2].ns = <<1>>

(***************************************************************************)
(* C8: eq and cmp of Benchmark read the name alone: equal names compare    *)
(* equal whatever the other fields, distinct names compare as the names do *)
(* lexicographically, cmp never panics and is Equal exactly when eq holds. *)
(***************************************************************************)
RECURSIVE LexLess(_, _)
LexLess(s, t) ==
    /\ t # <<>>
    /\ \/ s = <<>>
       \/ Byte(Head(s)) < Byte(Head(t))
       \/ Head(s) = Head(t) /\ LexLess(Tail(s), Tail(t))

C8_NameOnlyOrder ==
    /\ eqOut # None => (Unwrap(eqOut) <=> lhs.name = rhs.name)
    /\ cmpOut # None =>
        /\ Unwrap(cmpOut) # "Panic"
        /\ Unwrap(cmpOut) = "Equal" <=> lhs.name = rhs.name
        /\ Unwrap(cmpOut) = "Less" <=> LexLess(lhs.name, rhs.name)
        /\ Unwrap(cmpOut) = "Greater" <=> LexLess(rhs.name, lhs.name)
    /\ (eqOut # None /\ cmpOut # None) =>
        (Unwrap(cmpOut) = "Equal" <=> Unwrap(eqOut))

C8_Witness ==
    /\ eqOut = Some(TRUE)
    /\ cmpOut = Some("Equal")
    /\ lhs.name = <<"a", "B">>
    /\ lhs.ns # rhs.ns
    /\ lhs.throughput # rhs.throughput

(***************************************************************************)
(* C9: a line that does not parse never ends parse_lines, a read error     *)
(* ends it at that item: the error is returned, no later item is taken and *)
(* the records collected so far are not returned.                          *)
(***************************************************************************)
C9_OnlyReadErrorsAbort ==
    /\ \A i \in 1..pos : stream[i].kind = "err" => (i = pos /\ ret = Err("io"))
    /\ ret.tag = "Err" =>
        /\ pos >= 1
        /\ stream[pos] = ReadError
        /\ ret = Err("io")
        /\ vec = <<>>
    /\ ret.tag = "Ok" => pos = Len(stream)
    /\ ret.tag \in {"Running", "Ok", "Err"}

C9_Witness ==
    /\ ret = Err("io")
    /\ Len(stream) = 3
    /\ pos = 2
    /\ from_str(stream[1].text).tag = "Ok"
    /\ stream[3].kind = "line"

(***************************************************************************)
(* C10: under any interleaving of the threads' calls the regex is built    *)
(* and stored once: the cell is written at most once, what it holds never  *)
(* changes afterwards, and every call returns the stored Regex.            *)
(***************************************************************************)
C10_InitialisedOnce ==
    /\ stores <= 1
    /\ built <= 1
    /\ cellState = "COMPLETE" <=> cell # None
    /\ cell # None => cell = Some(1) /\ stores = 1
    /\ \A t \in Threads : calls[t] > 0 => (got[t] = cell /\ cell # None)
    /\ \A t \in Threads : pc[t] = "ret" => cell # None

C10_Witness ==
    \E t1, t2, t3 \in Threads :
        /\ mine[t1] # None
        /\ calls[t1] = MaxCalls
        /\ mine[t2] = None
        /\ pc[t2] = "slow"
        /\ calls[t3] = 1
        /\ got[t3] = mine[t1]
        /\ mine[t3] = None

============================================================================
